---------------------------- MODULE Spec2Model ----------------------------
(***************************************************************************)
(* Model of the plaindesk_auth micro-service: the session endpoints of     *)
(* routes/auth.py (login, logout, refresh against the identity provider),  *)
(* the access guard of auth/supabase_auth.py (JWT verification against a   *)
(* fetched key set), the local token issuer/verifier of                    *)
(* auth/jwt_handler.py and the local credential store of                   *)
(* services/auth_service.py.                                               *)
(*                                                                         *)
(* Four specifications share the variables; each moves one part and        *)
(* leaves the others in their initial state:                               *)
(*   Spec       the session endpoints                                      *)
(*   GuardSpec  the access guard                                           *)
(*   JwtSpec    the local token issuer and verifier                        *)
(*   StoreSpec  the local credential store: registration and login         *)
(***************************************************************************)
EXTENDS Integers, Sequences, FiniteSets, TLC

VARIABLES
    tokens,          \* provider: the refresh tokens it issued, <<[user, state]>>
    client_session,  \* routes/auth.py `supabase`: the client's current session
    resp,            \* the caller-visible response of the last session request
    prev,            \* op and status of the response before it
    jwks_up,         \* provider: whether the key-set endpoint answers
    jwks,            \* provider: the published key set
    guard,           \* the last get_current_user call and its outcome
    ttl,             \* jwt_handler.ACCESS_TOKEN_EXPIRE_MINUTES
    issued,          \* the last create_access_token call and its token
    verified,        \* the last verify_access_token call and its outcome
    users,           \* table `users`
    procs,           \* the create_user / authenticate_user coroutines
    appointments,    \* provider: table `appointments`
    appointments_id_seq, \* provider: the next id the table hands out
    handlers         \* routes/appointments.py: each worker's current request

vars == <<tokens, client_session, resp, prev, jwks_up, jwks, guard,
          ttl, issued, verified, users, procs,
          appointments, appointments_id_seq, handlers>>

sessionVars == <<tokens, client_session, resp, prev>>
guardVars   == <<jwks_up, jwks, guard>>
jwtVars     == <<ttl, issued, verified>>
storeVars   == <<users, procs>>
apptVars    == <<appointments, appointments_id_seq, handlers>>

\* Python's None.
None == [none |-> TRUE]

(***************************************************************************)
(* Bounds of the model.                                                    *)
(***************************************************************************)
MaxTokens == 3       \* sessions the provider issues in one run

Principals == {"A", "B"}

(***************************************************************************)
(* Status codes (fastapi.status).  The handlers' Russian detail strings    *)
(* are written in English below.                                           *)
(***************************************************************************)
HTTP_200_OK == 200
HTTP_400_BAD_REQUEST == 400
HTTP_401_UNAUTHORIZED == 401
HTTP_500_INTERNAL_SERVER_ERROR == 500

(***************************************************************************)
(*                     SESSION ENDPOINTS (routes/auth.py)                  *)
(***************************************************************************)

\* The passwords the provider knows; a login presents one of Passwords.
Passwords == {"pw-A", "pw-B", "wrong"}
PasswordOf(u) == IF u = "A" THEN "pw-A" ELSE "pw-B"

AT(n) == [at |-> n]      \* the access token of the provider's n-th session
RT(n) == [rt |-> n]      \* its refresh token

ProviderSession(n, u) ==
    [access_token |-> AT(n), refresh_token |-> RT(n), user |-> u]

\* What the provider answers: the reply object the handlers read
\* (.status_code, .session, .error.message).
Ok(session) == [status_code |-> 200, session |-> session, error |-> None]
\* A rejection comes with an error object, or as a bare reply without a session.
Rejections(msg) ==
    { [status_code |-> 400, session |-> None, error |-> [message |-> msg]],
      [status_code |-> 200, session |-> None, error |-> None] }

MsgInvalidLogin   == "Invalid login credentials"
MsgInvalidRefresh == "Invalid Refresh Token"
MsgNoSession      == "Already signed out"

\* Token(BaseModel): the fields of the declared response model.
Token == {"access_token", "token_type"}

\* response_model=Token: the framework serialises the returned dict through
\* the declared model, which keeps the model's fields only.
response_model(model, d) == [f \in (DOMAIN d) \cap model |-> d[f]]

HTTPException(code, detail) ==
    [status |-> code, detail |-> detail, body |-> None]
Returned(body) ==
    [status |-> HTTP_200_OK, detail |-> None, body |-> body]

\* login, lines 84-91: the reply of sign_in_with_password to the response.
login_response(auth_resp) ==
    IF auth_resp.status_code # 200 \/ auth_resp.session = None
    THEN HTTPException(HTTP_401_UNAUTHORIZED,
                       IF auth_resp.error # None THEN auth_resp.error.message
                       ELSE "Authentication error.")
    ELSE Returned(response_model(Token,
             [access_token  |-> auth_resp.session.access_token,
              refresh_token |-> auth_resp.session.refresh_token,
              token_type    |-> "bearer"]))

\* logout, lines 100-104: the reply of sign_out to the response.
logout_response(signout_resp) ==
    IF signout_resp.status_code # 200
    THEN HTTPException(HTTP_400_BAD_REQUEST,
                       IF signout_resp.error # None THEN signout_resp.error.message
                       ELSE "Logout error.")
    ELSE Returned([message |-> "You have logged out."])

\* A refresh handler that does not look at the reply's status.
refresh_response_unchecked(refresh_resp) ==
    Returned(response_model(Token,
        [access_token  |-> IF refresh_resp.session = None THEN None
                           ELSE refresh_resp.session.access_token,
         refresh_token |-> IF refresh_resp.session = None THEN None
                           ELSE refresh_resp.session.refresh_token,
         token_type    |-> "bearer"]))

\* refresh_token, lines 120-127: the reply of refresh_session to the response.
refresh_response(refresh_resp) ==
    IF refresh_resp.status_code # 200 \/ refresh_resp.session = None
    THEN HTTPException(HTTP_401_UNAUTHORIZED,
                       IF refresh_resp.error # None THEN refresh_resp.error.message
                       ELSE "Could not refresh the session.")
    ELSE Returned(response_model(Token,
             [access_token  |-> refresh_resp.session.access_token,
              refresh_token |-> refresh_resp.session.refresh_token,
              token_type    |-> "bearer"]))

\* One request's record: who sent it, what the provider replied (None when
\* the provider was not called), how often it was called, and the response.
Request(op, caller, arg, reply, calls, r) ==
    [op |-> op, caller |-> caller, arg |-> arg, reply |-> reply,
     calls |-> calls, status |-> r.status, detail |-> r.detail, body |-> r.body]

NoRequest == [op |-> "none"]

SessionInit ==
    /\ tokens = << >>
    /\ client_session = None
    /\ resp = NoRequest
    /\ prev = NoRequest

\* What the next request remembers of the one before it.
Before(r) == IF r.op = "none" THEN r ELSE [op |-> r.op, status |-> r.status]

\* POST /login.  sign_in_with_password either rejects the credentials or
\* issues a session, which the shared client keeps as its current session.
login(u, pw) ==
    /\ IF pw = PasswordOf(u)
       THEN /\ Len(tokens) < MaxTokens
            /\ LET n == Len(tokens) + 1
                   s == ProviderSession(n, u)
               IN /\ tokens' = Append(tokens, [user |-> u, state |-> "valid"])
                  /\ client_session' = s
                  /\ resp' = Request("login", u, u, Ok(s), 1,
                                     login_response(Ok(s)))
       ELSE /\ \E rej \in Rejections(MsgInvalidLogin) :
                 resp' = Request("login", u, u, rej, 1, login_response(rej))
            /\ UNCHANGED <<tokens, client_session>>
    /\ prev' = Before(resp)

\* The provider revokes one refresh token.
Revoke(n) == [tokens EXCEPT ![n].state = "revoked"]

\* The reply of sign_out when the client holds no session.
NotSignedIn == [status_code |-> 400, session |-> None,
                error |-> [message |-> MsgNoSession]]

\* POST /logout.  The handler takes no token and no session: sign_out() acts
\* on the current session of the shared client.  Without one the provider
\* may answer ok or report that nobody is signed in.
logout(caller) ==
    /\ IF client_session # None
       THEN /\ tokens' = Revoke(client_session.refresh_token.rt)
            /\ client_session' = None
            /\ resp' = Request("logout", caller, None, Ok(None), 1,
                               logout_response(Ok(None)))
       ELSE /\ \E reply \in {Ok(None), NotSignedIn} :
                 resp' = Request("logout", caller, None, reply, 1,
                                 logout_response(reply))
            /\ UNCHANGED <<tokens, client_session>>
    /\ prev' = Before(resp)

\* POST /refresh.  body.get("refresh_token") is None when the field is absent.
\* refresh_session rotates a valid refresh token: the presented one is
\* consumed and a new session is issued to the same user; anything else
\* (consumed, revoked, never issued) is rejected.
refresh_token(caller, refresh_token_val) ==
    /\ IF refresh_token_val = None
       THEN /\ resp' = Request("refresh", caller, refresh_token_val, None, 0,
                           HTTPException(HTTP_401_UNAUTHORIZED,
                                         "Refresh token is missing."))
            /\ UNCHANGED <<tokens, client_session>>
       ELSE LET r == refresh_token_val.rt IN
            IF r \in DOMAIN tokens /\ tokens[r].state = "valid"
            THEN /\ Len(tokens) < MaxTokens
                 /\ LET n == Len(tokens) + 1
                        s == ProviderSession(n, tokens[r].user)
                    IN /\ tokens' = Append([tokens EXCEPT ![r].state = "consumed"],
                                           [user |-> tokens[r].user, state |-> "valid"])
                       /\ client_session' = s
                       /\ resp' = Request("refresh", caller, refresh_token_val,
                                          Ok(s), 1, refresh_response(Ok(s)))
            ELSE /\ \E rej \in Rejections(MsgInvalidRefresh) :
                      resp' = Request("refresh", caller, refresh_token_val, rej, 1,
                                      refresh_response(rej))
                 /\ UNCHANGED <<tokens, client_session>>
    /\ prev' = Before(resp)

\* The refresh tokens a request body can carry: any the provider could issue,
\* one it never issues, or none.
BodyTokens == {RT(n) : n \in 1..(MaxTokens + 1)} \cup {None}

Login   == /\ \E u \in Principals, pw \in Passwords : login(u, pw)
           /\ UNCHANGED <<guardVars, jwtVars, storeVars, apptVars>>
Logout  == /\ \E c \in Principals : logout(c)
           /\ UNCHANGED <<guardVars, jwtVars, storeVars, apptVars>>
Refresh == /\ \E c \in Principals, b \in BodyTokens : refresh_token(c, b)
           /\ UNCHANGED <<guardVars, jwtVars, storeVars, apptVars>>

(***************************************************************************)
(*          TOKENS AND THE JOSE LIBRARY CALLS THE VERIFIERS MAKE           *)
(***************************************************************************)

TicksPerSecond == 2      \* resolution of the clock: datetime.utcnow() is
                         \* finer than the whole seconds a token carries
SecondsPerMinute == 60   \* timedelta(minutes=...)

\* A string value (kept apart from None).
Str(s) == [str |-> s]

\* A token on the wire: its header (Unparseable when the header segment does
\* not decode to a JSON object), its claims, and the key that signed it.
Unparseable == [unparseable |-> TRUE]
JWT(header, claims, sig) == [header |-> header, claims |-> claims, sig |-> sig]

\* dict.get(k) / dict.get(k, default)
Get(d, k, default) == IF k \in DOMAIN d THEN d[k] ELSE default
\* Python truthiness of an optional string: None and "" are falsy.
Falsy(x) == x = None \/ x = Str("")

\* The outcome of a call: a returned value, or a raised exception.
Return(v) == [raised |-> "", status |-> 0, detail |-> "", value |-> v]
Raise(class, msg) == [raised |-> class, status |-> 0, detail |-> msg, value |-> None]
RaiseHTTP(code, detail) ==
    [raised |-> "HTTPException", status |-> code, detail |-> detail, value |-> None]
\* ExpiredSignatureError and JWTClaimsError are subclasses of JWTError.
IsJWTError(r) == r.raised \in {"JWTError", "ExpiredSignatureError", "JWTClaimsError"}

\* timegm(datetime.utctimetuple()): a time in whole seconds.
timegm(t) == t \div TicksPerSecond

\* jwt.get_unverified_header(token)
get_unverified_header(token) ==
    IF token.header = Unparseable
    THEN Raise("JWTError", "Error decoding token headers.")
    ELSE Return(token.header)

\* The key material of a key: a JWK entry carries it, a secret is it.
Material(key) == IF "key" \in DOMAIN key THEN key["key"] ELSE key

\* jwt.decode(token, key, algorithms=...) at time t: the token is loaded, the
\* header's alg is checked against the allowed ones, the signature is
\* verified, and only then the claims (exp < now raises
\* ExpiredSignatureError, now in whole seconds and no leeway).
jwt_decode(token, key, algorithms, t) ==
    IF token.header = Unparseable
    THEN Raise("JWTError", "Invalid header string")
    ELSE IF token.header.alg \notin algorithms
    THEN Raise("JWTError", "The specified alg value is not allowed")
    ELSE IF token.sig # Material(key)
    THEN Raise("JWTError", "Signature verification failed.")
    ELSE IF "exp" \in DOMAIN token.claims /\ token.claims["exp"] < timegm(t)
    THEN Raise("ExpiredSignatureError", "Signature has expired.")
    ELSE Return(token.claims)

(***************************************************************************)
(*                  ACCESS GUARD (auth/supabase_auth.py)                   *)
(***************************************************************************)

MaxGuardTime == 3        \* verification times and expiries, in seconds

JWK(kid, key) == [kid |-> Str(kid), key |-> Str(key)]

\* The documents the key-set endpoint may publish: key sets before and
\* after rotations (k1 re-issued with another key among them), and a JSON
\* object without "keys".
KeySetDocuments ==
    { [keys |-> << >>],
      [keys |-> <<JWK("k1", "K1")>>],
      [keys |-> <<JWK("k2", "K2")>>],
      [keys |-> <<JWK("k1", "K1"), JWK("k2", "K2")>>],
      [keys |-> <<JWK("k1", "K2")>>],
      [message |-> "no keys"] }

DetailJwksUnavailable == "Error fetching the JWKS keys from Supabase"
DetailBadHeader       == "Invalid JWT header"
DetailNoKid           == "Missing 'kid' in the token header"
DetailKeyNotFound     == "Public key for verifying the token not found"
DetailInvalidOrExpired == "Invalid or expired token"

\* A fetch that lets the transport's exception through.
fetch_jwks_uncaught(up, document) ==
    IF up THEN Return(document)
    ELSE Raise("ConnectionError", "requests.get failed")

\* fetch_jwks(): the published document, or HTTP 500 on any failure.
fetch_jwks(up, document) ==
    IF up THEN Return(document)
    ELSE RaiseHTTP(HTTP_500_INTERNAL_SERVER_ERROR, DetailJwksUnavailable)

\* lines 49-54: the first entry of the key set with the token's kid.
find_public_key(keys, kid) ==
    LET hits == {i \in DOMAIN keys : Get(keys[i], "kid", None) = kid}
    IN IF hits = {} THEN None
       ELSE keys[CHOOSE i \in hits : \A j \in hits : i <= j]

\* A verifier that hands whatever the search found to jwt.decode.
verify_supabase_jwt_no_key_check(token, up, document, t) ==
    LET fetched == fetch_jwks(up, document) IN
    IF fetched.raised # "" THEN fetched
    ELSE
    LET unverified_header == get_unverified_header(token) IN
    IF IsJWTError(unverified_header)
    THEN RaiseHTTP(HTTP_401_UNAUTHORIZED, DetailBadHeader)
    ELSE
    LET kid == Get(unverified_header.value, "kid", None) IN
    IF Falsy(kid)
    THEN RaiseHTTP(HTTP_401_UNAUTHORIZED, DetailNoKid)
    ELSE
    LET public_key == find_public_key(Get(fetched.value, "keys", << >>), kid)
        decoded == jwt_decode(token, public_key, {"RS256"}, t)
    IN IF IsJWTError(decoded)
       THEN RaiseHTTP(HTTP_401_UNAUTHORIZED, DetailInvalidOrExpired)
       ELSE decoded

\* verify_supabase_jwt(token) at time t, the endpoint being up or not and
\* publishing `document`.  The key set is fetched before the token is read.
verify_supabase_jwt(token, up, document, t) ==
    LET fetched == fetch_jwks(up, document) IN
    IF fetched.raised # "" THEN fetched
    ELSE
    LET unverified_header == get_unverified_header(token) IN
    IF IsJWTError(unverified_header)
    THEN RaiseHTTP(HTTP_401_UNAUTHORIZED, DetailBadHeader)
    ELSE
    LET kid == Get(unverified_header.value, "kid", None) IN
    IF Falsy(kid)
    THEN RaiseHTTP(HTTP_401_UNAUTHORIZED, DetailNoKid)
    ELSE
    LET public_key == find_public_key(Get(fetched.value, "keys", << >>), kid) IN
    IF public_key = None
    THEN RaiseHTTP(HTTP_401_UNAUTHORIZED, DetailKeyNotFound)
    ELSE
    LET decoded == jwt_decode(token, public_key, {"RS256"}, t)
    IN IF IsJWTError(decoded)
       THEN RaiseHTTP(HTTP_401_UNAUTHORIZED, DetailInvalidOrExpired)
       ELSE decoded

\* get_current_user(credentials): the verifier's payload or its exception.
get_current_user(token, up, document, t) ==
    verify_supabase_jwt(token, up, document, t)

\* The headers a bearer token may carry.
GuardHeaders ==
    { Unparseable,
      [alg |-> "RS256"],
      [alg |-> "RS256", kid |-> Str("")],
      [alg |-> "RS256", kid |-> Str("k1")],
      [alg |-> "RS256", kid |-> Str("k2")],
      [alg |-> "RS256", kid |-> Str("k3")],
      [alg |-> "HS256", kid |-> Str("k1")] }

\* The bearer tokens presented to the guard.
GuardTokens ==
    { JWT(h, [sub |-> "A", exp |-> e], Str(k)) :
        h \in GuardHeaders, e \in 0..MaxGuardTime, k \in {"K1", "K2"} }

GuardTimes == 0..(MaxGuardTime * TicksPerSecond + 1)

GuardInit == jwks_up = TRUE /\ jwks = [keys |-> << >>] /\ guard = NoRequest

\* The provider rotates its keys.
PublishKeys ==
    /\ \E d \in KeySetDocuments : jwks' = d
    /\ UNCHANGED <<jwks_up, guard, sessionVars, jwtVars, storeVars, apptVars>>

\* The key-set endpoint goes down or comes back.
JwksOutage ==
    /\ jwks_up' = ~jwks_up
    /\ UNCHANGED <<jwks, guard, sessionVars, jwtVars, storeVars, apptVars>>

\* A request to a guarded resource arrives and is answered.
GetCurrentUser ==
    /\ guard = NoRequest
    /\ \E token \in GuardTokens, t \in GuardTimes :
          guard' = [op |-> "get_current_user", token |-> token, t |-> t,
                    up |-> jwks_up, document |-> jwks,
                    out |-> get_current_user(token, jwks_up, jwks, t)]
    /\ UNCHANGED <<jwks_up, jwks, sessionVars, jwtVars, storeVars, apptVars>>

\* The answer has been sent; the guard waits for the next request.
GuardAnswered ==
    /\ guard # NoRequest
    /\ guard' = NoRequest
    /\ UNCHANGED <<jwks_up, jwks, sessionVars, jwtVars, storeVars, apptVars>>

GuardIdle == GuardInit
(***************************************************************************)
(*             LOCAL TOKEN ISSUER AND VERIFIER (auth/jwt_handler.py)       *)
(***************************************************************************)

MaxTTL == 2              \* ACCESS_TOKEN_EXPIRE_MINUTES ranges over -1..MaxTTL
MaxNow == 3              \* issue times, in ticks

SECRET_KEY == Str("supersecretkey")
ALGORITHM  == "HS256"

\* A datetime, in ticks since the epoch.
Datetime(ticks) == [ticks |-> ticks]
\* timedelta(minutes=m), in ticks.
Minutes(m) == m * SecondsPerMinute * TicksPerSecond

\* dict.update({k: v})
Update(d, k, v) == [f \in (DOMAIN d) \cup {k} |-> IF f = k THEN v ELSE d[f]]

\* jwt.encode(claims, key, algorithm): a datetime exp is written as whole
\* seconds; the token is signed with the key.
jwt_encode(claims, key, algorithm) ==
    JWT([alg |-> algorithm, typ |-> "JWT"],
        [f \in DOMAIN claims |-> IF f = "exp" THEN timegm(claims[f].ticks)
                                 ELSE claims[f]],
        key)

\* An issuer that sets exp only when the caller gave none.
create_access_token_setdefault(data, now) ==
    LET expire == Datetime(now + Minutes(ttl))
        to_encode == IF "exp" \in DOMAIN data THEN data
                     ELSE Update(data, "exp", expire)
    IN jwt_encode(to_encode, SECRET_KEY, ALGORITHM)

\* create_access_token(data) called at time now.
create_access_token(data, now) ==
    LET expire == Datetime(now + Minutes(ttl))
        to_encode == Update(data, "exp", expire)
    IN jwt_encode(to_encode, SECRET_KEY, ALGORITHM)

\* verify_access_token(token) called at time t: the payload, or the
\* JWTError of jwt.decode raised again.
verify_access_token(token, t) ==
    LET payload == jwt_decode(token, SECRET_KEY, {ALGORITHM}, t)
    IN IF IsJWTError(payload) THEN payload ELSE payload

\* The last tick a verification is made at.
MaxTick == MaxNow + (MaxTTL * SecondsPerMinute + 2) * TicksPerSecond

\* The claims a caller passes: a subject, with or without an expiry of its
\* own (one long past, one far ahead).
IssueData ==
    { [sub |-> "alice"],
      [sub |-> "alice", exp |-> Datetime(0)],
      [sub |-> "bob", exp |-> Datetime(2 * MaxTick)] }

\* What is presented for an issued token: the token, the same claims signed
\* with another secret, the same with another algorithm, and garbage.
Presented(token) ==
    { token,
      JWT(token.header, token.claims, Str("anothersecret")),
      JWT([alg |-> "RS256", typ |-> "JWT"], token.claims, token.sig),
      JWT(Unparseable, token.claims, token.sig) }

\* ACCESS_TOKEN_EXPIRE_MINUTES is read once, at import: any integer, a
\* negative one included.
JwtInit == ttl \in (-1)..MaxTTL /\ issued = NoRequest /\ verified = NoRequest

CreateAccessToken ==
    /\ verified = NoRequest
    /\ \E data \in IssueData, now \in 0..MaxNow :
          issued' = [op |-> "create", data |-> data, now |-> now,
                     token |-> create_access_token(data, now)]
    /\ UNCHANGED <<ttl, verified, sessionVars, guardVars, storeVars, apptVars>>

VerifyAccessToken ==
    /\ issued # NoRequest
    /\ verified = NoRequest
    /\ \E token \in Presented(issued.token), t \in issued.now..MaxTick :
          verified' = [op |-> "verify", token |-> token, t |-> t,
                       out |-> verify_access_token(token, t)]
    /\ UNCHANGED <<ttl, issued, sessionVars, guardVars, storeVars, apptVars>>

\* The caller has its answer.
VerifyAnswered ==
    /\ verified # NoRequest
    /\ verified' = NoRequest
    /\ UNCHANGED <<ttl, issued, sessionVars, guardVars, storeVars, apptVars>>

JwtIdle   == ttl = 0 /\ issued = NoRequest /\ verified = NoRequest
(***************************************************************************)
(*        LOCAL CREDENTIAL STORE (services/auth_service.py, models/user.py) *)
(***************************************************************************)

MaxRequests == 2         \* create_user and authenticate_user coroutines in one run

Requests  == 1..MaxRequests
Usernames == {"alice", "bob"}
\* A password: its first 72 bytes and what follows them (UserCreate.password
\* admits up to 128 characters).
Secret(first72, rest) == [first72 |-> first72, rest |-> rest]
\* A short password, and two of 73 bytes that differ in the last one only.
Secrets   == { Secret("secret123", ""),
               Secret("72 bytes", "a"),
               Secret("72 bytes", "b") }
Salts     == {"salt1", "salt2"}

\* UserCreate: the registrations a request can carry.
UserCreate == [username : Usernames, password : Secrets]

\* bcrypt reads the first 72 bytes of the password and no more.
bcrypt(password, salt) == <<salt, password.first72>>

\* pwd_context.hash(password): bcrypt with a fresh salt, which the hash embeds.
hash_password(password, salt) ==
    [salt |-> salt, digest |-> bcrypt(password, salt)]

\* pwd_context.verify(plain, hashed): bcrypt again with the embedded salt.
verify_password(plain_password, hashed_password) ==
    bcrypt(plain_password, hashed_password.salt) = hashed_password.digest

\* get_user_by_username: SELECT ... WHERE username = :username, first row.
get_user_by_username(username) ==
    IF \E row \in users : row.username = username
    THEN CHOOSE row \in users : row.username = username
    ELSE None

\* The next value of the primary key sequence.
NextId == Cardinality(users) + 1

\* A table that accepts any row.
no_unique_constraint(username) == FALSE

\* User.username is unique=True: an INSERT of a taken username is refused.
unique_violation(username) == \E row \in users : row.username = username

Idle == [pc |-> "idle"]

StoreInit == users = {} /\ procs = [p \in Requests |-> Idle]

\* create_user, lines 46-48: hash the password, build the User and add it
\* to the request's own session; nothing is written before the commit.
create_user_add(p) ==
    /\ procs[p].pc = "idle"
    /\ \E user \in UserCreate, salt \in Salts :
          LET hashed == hash_password(user.password, salt)
              db_user == [username |-> user.username, hashed_password |-> hashed]
          IN procs' = [procs EXCEPT ![p] =
                          [pc |-> "commit", user |-> user, db_user |-> db_user]]
    /\ UNCHANGED <<users, sessionVars, guardVars, jwtVars, apptVars>>

\* create_user, line 49: await db.commit() flushes the INSERT.  The table
\* refuses a taken username and the IntegrityError leaves create_user.
create_user_commit(p) ==
    /\ procs[p].pc = "commit"
    /\ IF unique_violation(procs[p].db_user.username)
       THEN /\ procs' = [procs EXCEPT ![p] =
                  [pc |-> "raised", user |-> procs[p].user,
                   db_user |-> procs[p].db_user,
                   out |-> Raise("IntegrityError",
                                 "duplicate key value violates unique constraint")]]
            /\ UNCHANGED users
       ELSE LET row == [id |-> NextId,
                        username |-> procs[p].db_user.username,
                        hashed_password |-> procs[p].db_user.hashed_password]
            IN /\ users' = users \cup {row}
               /\ procs' = [procs EXCEPT ![p] =
                     [pc |-> "refresh", user |-> procs[p].user, db_user |-> row]]
    /\ UNCHANGED <<sessionVars, guardVars, jwtVars, apptVars>>

\* create_user, lines 50-51: await db.refresh(db_user) reads the row back
\* by primary key, and the user is returned.
create_user_refresh(p) ==
    /\ procs[p].pc = "refresh"
    /\ LET row == CHOOSE r \in users : r.id = procs[p].db_user.id
       IN procs' = [procs EXCEPT ![p] =
                       [pc |-> "returned", user |-> procs[p].user,
                        db_user |-> row, out |-> Return(row)]]
    /\ UNCHANGED <<users, sessionVars, guardVars, jwtVars, apptVars>>

\* authenticate_user, line 60, up to the await: the query is sent.
authenticate_user_query(p) ==
    /\ procs[p].pc = "idle"
    /\ \E username \in Usernames, password \in Secrets :
          procs' = [procs EXCEPT ![p] =
                      [pc |-> "query", username |-> username,
                       password |-> password]]
    /\ UNCHANGED <<users, sessionVars, guardVars, jwtVars, apptVars>>

\* authenticate_user, lines 60-65: the query is answered from the table as
\* it is then; None without a user or on a password that does not verify,
\* the user otherwise.
authenticate_user_result(p) ==
    /\ procs[p].pc = "query"
    /\ LET user == get_user_by_username(procs[p].username)
           out == IF user = None THEN Return(None)
                  ELSE IF ~verify_password(procs[p].password, user.hashed_password)
                  THEN Return(None)
                  ELSE Return(user)
       IN procs' = [procs EXCEPT ![p] =
                       [pc |-> "authenticated", username |-> procs[p].username,
                        password |-> procs[p].password, found |-> user,
                        out |-> out]]
    /\ UNCHANGED <<users, sessionVars, guardVars, jwtVars, apptVars>>

CreateUserAdd     == \E p \in Requests : create_user_add(p)
CreateUserCommit  == \E p \in Requests : create_user_commit(p)
CreateUserRefresh == \E p \in Requests : create_user_refresh(p)
AuthenticateUserQuery  == \E p \in Requests : authenticate_user_query(p)
AuthenticateUserResult == \E p \in Requests : authenticate_user_result(p)

StoreIdle == StoreInit

(***************************************************************************)
(*                APPOINTMENTS RESOURCE (routes/appointments.py)           *)
(*                                                                         *)
(* The handlers are `async def` and never await: a worker runs one handler *)
(* from its first statement to its last.  Each statement that reaches the  *)
(* table is a request of its own to the provider, so the handlers of       *)
(* different workers interleave between those statements.                  *)
(***************************************************************************)
MaxAppointments == 3

Workers == {"w1", "w2"}
AppointmentIds == 1..MaxAppointments
Dates == {"2025-01-10", "2025-01-11"}
Credentials == {"jwt-A", "jwt-B", "jwt-stale"}

\* The provider's answer to auth.get_user(jwt): the user the token was
\* issued to, or no user and an error.
auth_get_user(jwt) ==
    IF jwt = "jwt-A" THEN [user |-> [id |-> "A"], error |-> None]
    ELSE IF jwt = "jwt-B" THEN [user |-> [id |-> "B"], error |-> None]
    ELSE [user |-> None, error |-> [message |-> "invalid JWT"]]

HTTP_404_NOT_FOUND == 404
HTTP_409_CONFLICT == 409

DetailNoUserData    == "Could not get the user's data."
DetailNotFound      == "Appointment not found."
DetailDeleteFailed  == "Could not delete the appointment."
DetailDateTaken     == "The date is taken"
MsgCancelled        == "The appointment is cancelled."

\* get_current_user, lines 40-48.
appointments_get_current_user(credentials) ==
    LET user_resp == auth_get_user(credentials)
    IN IF user_resp.user = None
       THEN RaiseHTTP(HTTP_401_UNAUTHORIZED,
                      IF user_resp.error # None THEN user_resp.error.message
                      ELSE DetailNoUserData)
       ELSE Return(user_resp.user)

\* A lookup by id alone.
select_eq_id(id, user_id) ==
    {row \in appointments : row.id = id}

\* Line 95: select("*").eq("id", id).eq("user_id", user.id).
select_eq_id_user_id(id, user_id) ==
    {row \in appointments : row.id = id /\ row.user_id = user_id}

\* Line 106: delete().eq("id", id); the answer's data are the deleted rows.
delete_eq_id(id) ==
    {row \in appointments : row.id = id}

\* The table refuses a second appointment on a date (line 80).
date_taken(appointment_date) ==
    \E row \in appointments : row.appointment_date = appointment_date

Waiting == [pc |-> "idle"]
Free(w) == handlers[w].pc \in {"idle", "done"}
Done(op, credentials, arg, out) ==
    [pc |-> "done", op |-> op, credentials |-> credentials, arg |-> arg,
     out |-> out]

ApptInit ==
    /\ appointments = {}
    /\ appointments_id_seq = 1
    /\ handlers = [w \in Workers |-> Waiting]

\* create_appointment, lines 67-86, behind its dependency get_current_user.
\* The insert names no id: the table draws it from its sequence, which
\* moves on whether or not the row is accepted.
create_appointment(w, credentials, appointment_date) ==
    /\ Free(w)
    /\ LET user == appointments_get_current_user(credentials)
       IN IF user.raised # ""
          THEN /\ handlers' = [handlers EXCEPT ![w] =
                     Done("create", credentials, Str(appointment_date), user)]
               /\ UNCHANGED <<appointments, appointments_id_seq>>
          ELSE /\ appointments_id_seq <= MaxAppointments
               /\ appointments_id_seq' = appointments_id_seq + 1
               /\ IF date_taken(appointment_date)
                  THEN /\ handlers' = [handlers EXCEPT ![w] =
                             Done("create", credentials, Str(appointment_date),
                                  RaiseHTTP(HTTP_409_CONFLICT, DetailDateTaken))]
                       /\ UNCHANGED appointments
                  ELSE LET row == [id |-> appointments_id_seq,
                                   user_id |-> user.value.id,
                                   appointment_date |-> appointment_date]
                       IN /\ appointments' = appointments \cup {row}
                          /\ handlers' = [handlers EXCEPT ![w] =
                                Done("create", credentials,
                                     Str(appointment_date), Return(row))]
    /\ UNCHANGED <<sessionVars, guardVars, jwtVars, storeVars>>

\* delete_appointment, lines 88-103, behind its dependency
\* get_current_user: the ownership check.
delete_appointment_select(w, credentials, id) ==
    /\ Free(w)
    /\ LET user == appointments_get_current_user(credentials)
       IN IF user.raised # ""
          THEN handlers' = [handlers EXCEPT ![w] = Done("delete", credentials, id, user)]
          ELSE LET data == select_eq_id_user_id(id, user.value.id)
               IN IF data = {}
                  THEN handlers' = [handlers EXCEPT ![w] =
                          Done("delete", credentials, id,
                               RaiseHTTP(HTTP_404_NOT_FOUND, DetailNotFound))]
                  ELSE handlers' = [handlers EXCEPT ![w] =
                          [pc |-> "delete", op |-> "delete",
                           credentials |-> credentials, arg |-> id,
                           user |-> user.value, data |-> data]]
    /\ UNCHANGED <<appointments, appointments_id_seq>>
    /\ UNCHANGED <<sessionVars, guardVars, jwtVars, storeVars>>

\* delete_appointment, lines 105-115: the delete, by id alone, and the reply.
delete_appointment_delete(w) ==
    /\ handlers[w].pc = "delete"
    /\ LET data == delete_eq_id(handlers[w].arg)
       IN /\ appointments' = appointments \ data
          /\ handlers' = [handlers EXCEPT ![w] =
                Done("delete", handlers[w].credentials, handlers[w].arg,
                     IF data = {}
                     THEN RaiseHTTP(HTTP_500_INTERNAL_SERVER_ERROR,
                                    DetailDeleteFailed)
                     ELSE Return([success |-> TRUE, message |-> MsgCancelled]))]
    /\ UNCHANGED appointments_id_seq
    /\ UNCHANGED <<sessionVars, guardVars, jwtVars, storeVars>>

CreateAppointment ==
    \E w \in Workers, credentials \in Credentials, appointment_date \in Dates :
       create_appointment(w, credentials, appointment_date)
DeleteAppointmentSelect ==
    \E w \in Workers, credentials \in Credentials, id \in AppointmentIds :
       delete_appointment_select(w, credentials, id)
DeleteAppointmentDelete == \E w \in Workers : delete_appointment_delete(w)

ApptIdle == ApptInit

Init == SessionInit /\ GuardIdle /\ JwtIdle /\ StoreIdle /\ ApptIdle
Next == Login \/ Logout \/ Refresh
Spec == Init /\ [][Next]_vars

GuardNext == PublishKeys \/ JwksOutage \/ GetCurrentUser \/ GuardAnswered
GuardSpec == Init /\ [][GuardNext]_vars

JwtNext == CreateAccessToken \/ VerifyAccessToken \/ VerifyAnswered
StoreNext == \/ CreateUserAdd \/ CreateUserCommit \/ CreateUserRefresh
             \/ AuthenticateUserQuery \/ AuthenticateUserResult
StoreSpec == Init /\ [][StoreNext]_vars

JwtStart == SessionInit /\ GuardIdle /\ JwtInit /\ StoreIdle /\ ApptIdle
JwtSpec == JwtStart /\ [][JwtNext]_vars

ApptNext ==
    \/ CreateAppointment
    \/ DeleteAppointmentSelect
    \/ DeleteAppointmentDelete
ApptSpec == Init /\ [][ApptNext]_vars


(***************************************************************************)
(*                        CLAIMS ON THE SESSION ENDPOINTS                  *)
(***************************************************************************)

\* C1: a logout that follows a successful logout, the provider's sign-out
\* then reporting a non-OK "already signed out" result, returns success to
\* the caller.
C1_LogoutIdempotent ==
    ( /\ resp.op = "logout"
      /\ prev.op = "logout" /\ prev.status = HTTP_200_OK
      /\ \E n \in DOMAIN tokens : tokens[n].state = "revoked"
      /\ resp.reply.status_code # 200 )
    => resp.status = HTTP_200_OK

\* C2: every successful login and refresh hands the caller both tokens the
\* provider issued, the access token and the refresh token, unchanged.
C2_BothTokensDelivered ==
    (resp.op \in {"login", "refresh"} /\ resp.status = HTTP_200_OK)
    => /\ {"access_token", "refresh_token"} \subseteq DOMAIN resp.body
       /\ resp.body["access_token"] = resp.reply.session.access_token
       /\ resp.body["refresh_token"] = resp.reply.session.refresh_token

\* C3: a logout sent by one principal leaves every valid refresh token of
\* the other principal valid, whatever the order of the earlier requests.
C3_LogoutInvalidatesOwnSessionOnly ==
    [][\A n \in DOMAIN tokens :
          ( /\ resp'.op = "logout"
            /\ tokens[n].user # resp'.caller
            /\ tokens[n].state = "valid" )
          => tokens'[n].state = "valid"]_vars

\* C4: once refresh(r) has succeeded (r is consumed), every later refresh(r)
\* ends unauthorized with the provider's rejection as its reason, returns no
\* session, issues nothing, and calls the provider exactly once.
C4_ConsumedRefreshTokenRejected ==
    [][\A n \in DOMAIN tokens :
          ( /\ tokens[n].state = "consumed"
            /\ resp'.op = "refresh"
            /\ resp'.arg = RT(n) )
          => /\ resp'.status = HTTP_401_UNAUTHORIZED
             /\ resp'.body = None
             /\ resp'.calls = 1
             /\ resp'.reply.session = None
             /\ (resp'.reply.error # None
                   => resp'.detail = resp'.reply.error.message)
             /\ tokens' = tokens]_vars

\* C4 witness: a refresh token consumed by an earlier refresh was presented
\* again and refused.
C4_Witness ==
    /\ resp.op = "refresh"
    /\ resp.arg # None
    /\ resp.arg.rt \in DOMAIN tokens
    /\ tokens[resp.arg.rt].state = "consumed"
    /\ resp.status = HTTP_401_UNAUTHORIZED
    /\ resp.detail = MsgInvalidRefresh


(***************************************************************************)
(*                        CLAIMS ON THE ACCESS GUARD                       *)
(***************************************************************************)

\* What a presented token is, read off the token and the key set alone.
HeaderParses(token) == token.header # Unparseable
HasKid(token) == HeaderParses(token) /\ ~Falsy(Get(token.header, "kid", None))
\* The entries of a published document that carry the token's kid.
Matching(token, document) ==
    {i \in DOMAIN Get(document, "keys", << >>) :
        document.keys[i].kid = token.header.kid}
KeyKnown(token, document) == HasKid(token) /\ Matching(token, document) # {}
\* The key the verifier is to use: the first matching entry.
LocatedKey(token, document) ==
    document.keys[CHOOSE i \in Matching(token, document) :
                     \A j \in Matching(token, document) : i <= j].key
SignedByLocatedKey(token, document) ==
    KeyKnown(token, document) /\ token.sig = LocatedKey(token, document)
ExpiredAt(token, t) == token.claims.exp < t \div TicksPerSecond

\* C5: the failure of the first failing step is the one reported, in the
\* order header and kid, key-set fetch, key lookup, signature and expiry: a
\* token whose header does not parse or has no kid ends unauthorized as
\* malformed whether or not the fetch would succeed, and the key-set failure
\* is reported only for tokens with a parsed header and a kid.
C5_FirstFailingStepReported ==
    guard.op = "get_current_user" =>
       /\ ~HeaderParses(guard.token)
            => guard.out = RaiseHTTP(HTTP_401_UNAUTHORIZED, DetailBadHeader)
       /\ (HeaderParses(guard.token) /\ ~HasKid(guard.token))
            => guard.out = RaiseHTTP(HTTP_401_UNAUTHORIZED, DetailNoKid)
       /\ guard.out.detail = DetailJwksUnavailable => HasKid(guard.token)

\* C6: a token with a parsed header and a kid that no entry of the fetched
\* key set carries ends unauthorized as "key not found", with no claims; no
\* token whose key is found and whose signature is invalid gets that
\* outcome, and the unknown kid is never reported as a signature failure.
C6_UnknownKeyDistinct ==
    ( /\ guard.op = "get_current_user"
      /\ guard.up
      /\ HasKid(guard.token)
      /\ ~KeyKnown(guard.token, guard.document) )
    => /\ guard.out = RaiseHTTP(HTTP_401_UNAUTHORIZED, DetailKeyNotFound)
       /\ guard.out.value = None
       /\ guard.out.detail # DetailInvalidOrExpired
       /\ \A other \in GuardTokens, d \in KeySetDocuments :
             (KeyKnown(other, d) /\ ~SignedByLocatedKey(other, d))
             => get_current_user(other, TRUE, d, guard.t) # guard.out

\* C6 witness: the key set was fetched, it holds keys, and the token's kid
\* is none of them (the keys have rotated).
C6_Witness ==
    /\ guard.op = "get_current_user"
    /\ guard.up
    /\ HasKid(guard.token)
    /\ Get(guard.document, "keys", << >>) # << >>
    /\ ~KeyKnown(guard.token, guard.document)
    /\ guard.out.detail = DetailKeyNotFound

\* C8 (asymmetric path): a token signed with a key other than the one the
\* key set holds for its kid fails as an invalid signature, expired or not,
\* and that outcome differs from the one an expired token with a valid
\* signature gets.
C8_WrongKeyIsInvalidSignatureNotExpired ==
    ( /\ guard.op = "get_current_user"
      /\ guard.up
      /\ KeyKnown(guard.token, guard.document)
      /\ guard.token.header.alg = "RS256"
      /\ ~SignedByLocatedKey(guard.token, guard.document) )
    => /\ guard.out.raised = "HTTPException"
       /\ guard.out.status = HTTP_401_UNAUTHORIZED
       /\ \A other \in GuardTokens :
             ( /\ other.header = guard.token.header
               /\ SignedByLocatedKey(other, guard.document)
               /\ ExpiredAt(other, guard.t) )
             => get_current_user(other, TRUE, guard.document, guard.t) # guard.out

\* The failures of a verification other than the key-set fetch failing.
BadToken(token, document, t) ==
    \/ ~HeaderParses(token)
    \/ ~HasKid(token)
    \/ ~KeyKnown(token, document)
    \/ token.header.alg # "RS256"
    \/ ~SignedByLocatedKey(token, document)
    \/ ExpiredAt(token, t)

\* C9: the guard answers HTTP 500 exactly when the key-set fetch fails;
\* every other failure (header, kid, unknown key, signature, expiry) is
\* HTTP 401; no failure escapes as an unhandled exception or returns a
\* principal, and a principal is returned for a good token only.
C9_OnlyKeySetUnavailableIsServerError ==
    guard.op = "get_current_user" =>
       /\ guard.out.raised \in {"", "HTTPException"}
       /\ (guard.out.status = HTTP_500_INTERNAL_SERVER_ERROR) <=> ~guard.up
       /\ ~guard.up => /\ guard.out.raised = "HTTPException"
                       /\ guard.out.detail = DetailJwksUnavailable
                       /\ guard.out.value = None
       /\ (guard.up /\ BadToken(guard.token, guard.document, guard.t))
            => /\ guard.out.raised = "HTTPException"
               /\ guard.out.status = HTTP_401_UNAUTHORIZED
               /\ guard.out.value = None
       /\ (guard.up /\ ~BadToken(guard.token, guard.document, guard.t))
            => guard.out = Return(guard.token.claims)

\* C9 witness: an expired, correctly signed token while the key set is
\* served, answered 401 (a failure of the last step, not a server error).
C9_Witness ==
    /\ guard.op = "get_current_user"
    /\ guard.up
    /\ SignedByLocatedKey(guard.token, guard.document)
    /\ guard.token.header.alg = "RS256"
    /\ ExpiredAt(guard.token, guard.t)
    /\ guard.out.status = HTTP_401_UNAUTHORIZED


(***************************************************************************)
(*                 CLAIMS ON THE LOCAL ISSUER AND VERIFIER                 *)
(***************************************************************************)

\* now + TTL, in ticks, for the token last issued.
ExpiresAt == issued.now + Minutes(ttl)

\* C7: the token create_access_token made at `now` is accepted, with its
\* subject, at every time up to now + TTL - 1s and rejected as expired at
\* every time from now + TTL + 1s on; its exp claim is now + TTL (in the
\* whole seconds a token carries) whether or not the caller's claims had an
\* exp of their own.
C7_ExpiryIsNowPlusTTL ==
    (verified.op = "verify" /\ verified.token = issued.token) =>
       /\ issued.token.claims["exp"] =
             (issued.now \div TicksPerSecond) + ttl * SecondsPerMinute
       /\ verified.t <= ExpiresAt - TicksPerSecond
            => /\ verified.out.raised = ""
               /\ verified.out.value["sub"] = issued.data["sub"]
       /\ verified.t >= ExpiresAt + TicksPerSecond
            => verified.out.raised = "ExpiredSignatureError"

\* C7 witness: the caller's claims carried an expiry far ahead, and the
\* token is rejected as expired one second after now + TTL.
C7_Witness ==
    /\ verified.op = "verify"
    /\ verified.token = issued.token
    /\ "exp" \in DOMAIN issued.data
    /\ issued.data["exp"].ticks > MaxTick
    /\ issued.now % TicksPerSecond # 0
    /\ ttl > 0
    /\ verified.t = ExpiresAt + TicksPerSecond
    /\ verified.out.raised = "ExpiredSignatureError"


(***************************************************************************)
(*                  CLAIMS ON THE LOCAL CREDENTIAL STORE                   *)
(***************************************************************************)

\* The registrations of a username whose commit has been decided.
Committed(u) ==
    {p \in Requests : procs[p].pc \in {"refresh", "returned", "raised"}
                      /\ procs[p].db_user.username = u}
Stored(u) == {row \in users : row.username = u}

\* C10: of the registrations of one identifier, sequential or interleaved,
\* the first to commit is stored and every later one fails on the
\* duplicate (the store's AlreadyExists); exactly one credential is stored
\* for the identifier, and it is the first one's, unchanged.
C10_DuplicateRegistrationRefused ==
    \A u \in Usernames :
       /\ Cardinality(Stored(u)) <= 1
       /\ Committed(u) # {} =>
            \E first \in Committed(u) :
               /\ procs[first].pc \in {"refresh", "returned"}
               /\ Stored(u) = {procs[first].db_user}
               /\ \A later \in Committed(u) \ {first} :
                     /\ procs[later].pc = "raised"
                     /\ procs[later].out.raised = "IntegrityError"

\* C10 witness: two registrations of one identifier with different secrets
\* were both added before either committed; one is stored and returned, the
\* other was refused.
C10_Witness ==
    \E p, q \in Requests :
       /\ p # q
       /\ procs[p].pc = "returned"
       /\ procs[q].pc = "raised"
       /\ procs[p].db_user.username = procs[q].db_user.username
       /\ procs[p].db_user.hashed_password # procs[q].db_user.hashed_password
       /\ Cardinality(users) = 1


\* The registration, returned to its caller, that stored the row a login
\* found.
RegisteredBy(row) ==
    {q \in Requests : procs[q].pc = "returned"
                      /\ procs[q].db_user.id = row.id}

\* C11: authenticate_user returns the user exactly when a credential is
\* stored for the identifier and the supplied secret is the registered one;
\* an absent identifier and a wrong secret get the same single failure
\* outcome; after register(id, s), login(id, s) succeeds and login(id, s')
\* fails for every s' other than s.
C11_LoginIffRegisteredSecret ==
    \A p \in Requests : procs[p].pc = "authenticated" =>
       /\ procs[p].out.raised = ""
       /\ procs[p].out.value = None => procs[p].out = Return(None)
       /\ procs[p].found = None => procs[p].out = Return(None)
       /\ procs[p].found # None =>
             \A q \in RegisteredBy(procs[p].found) :
                /\ procs[p].password = procs[q].user.password
                     => procs[p].out = Return(procs[p].found)
                /\ procs[p].password # procs[q].user.password
                     => procs[p].out = Return(None)


\* The user a request speaks for, None when its credentials are refused.
Caller(credentials) == appointments_get_current_user(credentials).value

\* Worker w runs the ownership check of a delete request in this step.
ChecksOwnership(w) ==
    /\ Free(w)
    /\ handlers'[w] # handlers[w]
    /\ handlers'[w].op = "delete"

\* C12: whatever the interleaving of create and delete requests, a row
\* leaves the table only in the delete statement of a delete request whose
\* ownership check found that row under the caller's own user id; a delete
\* request of an authenticated caller whose check meets no appointment of
\* that id, or one of another user, ends with 404 "not found" and leaves
\* the table as it is.
C12_DeleteOnlyOwn ==
    [][ /\ \A row \in appointments \ appointments' :
              \E w \in Workers :
                 /\ handlers[w].pc = "delete"
                 /\ handlers'[w].pc = "done"
                 /\ row \in handlers[w].data
                 /\ row.id = handlers[w].arg
                 /\ row.user_id = handlers[w].user.id
                 /\ appointments \ appointments' = {row}
        /\ \A w \in Workers :
              ChecksOwnership(w) /\ Caller(handlers'[w].credentials) # None =>
                 LET U == Caller(handlers'[w].credentials).id
                     id == handlers'[w].arg
                 IN (~\E row \in appointments : row.id = id /\ row.user_id = U)
                       => /\ handlers'[w].pc = "done"
                          /\ handlers'[w].out =
                                RaiseHTTP(HTTP_404_NOT_FOUND, DetailNotFound)
                          /\ appointments' = appointments
      ]_vars

\* One worker has removed its caller's appointment while another has been
\* refused, with 404, an appointment that is there and is someone else's.
C12_Witness ==
    \E w1, w2 \in Workers :
       /\ handlers[w1].pc = "done" /\ handlers[w1].op = "delete"
       /\ handlers[w1].out.raised = ""
       /\ handlers[w2].pc = "done" /\ handlers[w2].op = "delete"
       /\ handlers[w2].out = RaiseHTTP(HTTP_404_NOT_FOUND, DetailNotFound)
       /\ \E row \in appointments :
             /\ row.id = handlers[w2].arg
             /\ row.user_id # Caller(handlers[w2].credentials).id

=============================================================================
